---- MODULE Spec2Model ----
(***************************************************************************)
(* Model of management/client.go: the tolerant codec of                    *)
(* ClientJWTConfiguration (UnmarshalJSON / MarshalJSON) and                *)
(* ClientManager.UpdateCredential.                                         *)
(*                                                                         *)
(* Machine integers are scaled down: a Go int has IntBits bits instead of  *)
(* 64 and a float64 has MantBits significant bits instead of 53, keeping   *)
(* MantBits < IntBits - 1 as 53 < 63.  JSON numbers are carried in halves  *)
(* (h stands for h/2) so that fractional literals exist.                   *)
(***************************************************************************)
EXTENDS Integers, Sequences, FiniteSets, TLC

VARIABLES jc, pre, in, out, err, op, src,
          credential, times, before, beforeTimes, clone, sent, cerr, cop

codecVars == <<jc, pre, in, out, err, op, src>>
credVars  == <<credential, times, before, beforeTimes, clone, sent, cerr, cop>>
vars      == <<jc, pre, in, out, err, op, src,
               credential, times, before, beforeTimes, clone, sent, cerr, cop>>

----------------------------------------------------------------------------
(* Bounds *)
IntBits   == 4
MantBits  == 2
MaxStrLen == 2

----------------------------------------------------------------------------
(* Pointers: a nil pointer is the empty tuple, a set pointer a 1-tuple *)
Nil      == <<>>
Ptr(v)   == <<v>>
Deref(p) == p[1]

RECURSIVE Pow2(_)
Pow2(k) == IF k = 0 THEN 1 ELSE 2 * Pow2(k - 1)

MinInt   == 0 - Pow2(IntBits - 1)
MaxInt   == Pow2(IntBits - 1) - 1
IntRange == MinInt..MaxInt

Abs(x) == IF x < 0 THEN 0 - x ELSE x
Sgn(x) == IF x < 0 THEN 0 - 1 ELSE 1

----------------------------------------------------------------------------
(* JSON values as they appear on the wire *)
None    == [k |-> "none"]
Absent  == [k |-> "absent"]
Null    == [k |-> "null"]
Bool(b) == [k |-> "bool", v |-> b]
Num(h)  == [k |-> "num", h |-> h]          \* the number h/2
Str(s)  == [k |-> "str", s |-> s]          \* s: a sequence of characters
Text(t) == [k |-> "text", t |-> t]         \* a JSON string kept opaque
Obj(m)  == [k |-> "obj", m |-> m]          \* m: a set of <<key, value>> pairs
Arr     == [k |-> "arr"]

Chars == {"0", "5", "-", ".", "a"}

RECURSIVE StringsUpTo(_)
StringsUpTo(n) ==
    IF n = 0 THEN {<<>>}
    ELSE LET shorter == StringsUpTo(n - 1)
         IN  shorter \cup {Append(s, c) : s \in {t \in shorter : Len(t) = n - 1}, c \in Chars}

NumberLiterals == {Num(h) : h \in (2 * (MinInt - 1))..(2 * (MaxInt + 1))}

LifetimeInputs ==
    {Absent, Null, Bool(TRUE), Obj({}), Arr}
        \cup NumberLiterals
        \cup {Str(s) : s \in StringsUpTo(MaxStrLen)}

ScopeMap == {<<"read", "r">>}

SiblingInputs ==
    { [secret_encoded |-> Bool(TRUE),  scopes |-> Obj(ScopeMap), alg |-> Text("HS256")],
      [secret_encoded |-> Text("yes"), scopes |-> Absent,        alg |-> Text("RS256")],
      [secret_encoded |-> Null,        scopes |-> Absent,        alg |-> Absent] }

(* the lifetimes that are combined with sibling keys *)
LifetimeInputsWithSiblings ==
    {Absent, Null, Bool(TRUE), Arr, Num(2), Str(<<"5">>), Str(<<"a">>)}

JSONObject(l, se, sc, a) ==
    [lifetime_in_seconds |-> l, secret_encoded |-> se, scopes |-> sc, alg |-> a]

Inputs ==
    {JSONObject(l, Absent, Absent, Absent) : l \in LifetimeInputs}
        \cup {JSONObject(l, s.secret_encoded, s.scopes, s.alg) :
                 l \in LifetimeInputsWithSiblings, s \in SiblingInputs}

NoInput == JSONObject(None, None, None, None)

----------------------------------------------------------------------------
(* Errors *)
NoError             == "nil"
unexpectedTypeError == "unexpected type for field lifetime_in_seconds"
UnmarshalTypeError  == "json: cannot unmarshal value into Go struct field"

----------------------------------------------------------------------------
(* ClientJWTConfiguration *)
ClientJWTConfiguration(l, se, sc, a) ==
    [LifetimeInSeconds |-> l, SecretEncoded |-> se, Scopes |-> sc, Algorithm |-> a]

ZeroJWTConfiguration == ClientJWTConfiguration(Nil, Nil, Nil, Nil)

----------------------------------------------------------------------------
(* encoding/json decodes a JSON number held in an interface{} as a float64: *)
(* the nearest value with MantBits significant bits, ties to even.          *)
RECURSIVE ShiftOf(_, _)
ShiftOf(m, s) == IF m \div Pow2(s) < Pow2(MantBits) THEN s ELSE ShiftOf(m, s + 1)

RoundMag(m) ==
    LET s == ShiftOf(m, 0)
        q == m \div Pow2(s)
        r == m % Pow2(s)
    IN  IF s = 0 THEN m
        ELSE LET half == Pow2(s - 1)
                 up   == r > half \/ (r = half /\ q % 2 = 1)
             IN  (IF up THEN q + 1 ELSE q) * Pow2(s)

Float64(h) == Sgn(h) * RoundMag(Abs(h))

(* int(f) for a float64 f (in halves): truncation toward zero; when the    *)
(* result does not fit an int the value is implementation-dependent: the   *)
(* minimum int on amd64, the saturated bound on arm64.                     *)
IntOfFloat64(f) ==
    LET t == Sgn(f) * (Abs(f) \div 2)
    IN  IF t \in IntRange THEN {t}
        ELSE IF t > 0 THEN {MinInt, MaxInt} ELSE {MinInt}

----------------------------------------------------------------------------
(* strconv.Atoi: optional sign, one or more decimal digits, in int range *)
Digits == <<"0", "1", "2", "3", "4", "5", "6", "7", "8", "9">>
IsDigit(c)  == \E i \in 1..Len(Digits) : Digits[i] = c
DigitVal(c) == (CHOOSE i \in 1..Len(Digits) : Digits[i] = c) - 1

AtoiOk(v) == [ok |-> TRUE, value |-> v]
AtoiErr   == [ok |-> FALSE, value |-> 0]

RECURSIVE ParseDigits(_, _)
ParseDigits(s, acc) ==
    IF s = <<>> THEN AtoiOk(acc)
    ELSE IF ~IsDigit(Head(s)) THEN AtoiErr
    ELSE ParseDigits(Tail(s), acc * 10 + DigitVal(Head(s)))

RECURSIVE ParseLeadingDigits(_, _)
ParseLeadingDigits(s, acc) ==
    IF s = <<>> \/ ~IsDigit(Head(s)) THEN acc
    ELSE ParseLeadingDigits(Tail(s), acc * 10 + DigitVal(Head(s)))

AtoiLenient(s) ==
    LET neg  == s # <<>> /\ Head(s) = "-"
        body == IF s # <<>> /\ Head(s) \in {"-", "+"} THEN Tail(s) ELSE s
        m    == ParseLeadingDigits(body, 0)
        v    == IF neg THEN 0 - m ELSE m
    IN  IF v \in IntRange THEN AtoiOk(v) ELSE AtoiErr

Atoi(s) ==
    IF s = <<>> THEN AtoiErr
    ELSE LET neg  == Head(s) = "-"
             body == IF Head(s) \in {"-", "+"} THEN Tail(s) ELSE s
         IN  IF body = <<>> THEN AtoiErr
             ELSE LET p == ParseDigits(body, 0)
                      v == IF neg THEN 0 - p.value ELSE p.value
                  IN  IF ~p.ok THEN AtoiErr
                      ELSE IF v \notin IntRange THEN AtoiErr
                      ELSE AtoiOk(v)

----------------------------------------------------------------------------
(* json.Unmarshal(b, alias): the sibling fields are written through the    *)
(* embedded pointer, lifetime_in_seconds lands in RawLifetimeInSeconds and *)
(* LifetimeInSeconds (json:"-") is not touched.  A type mismatch is saved, *)
(* decoding goes on, and the saved error is returned at the end.           *)
MergeMap(old, new) ==
    {p \in old : ~\E q \in new : q[1] = p[1]} \cup new

DecodeSecretEncoded(old, j) ==
    IF j.k = "absent" THEN old
    ELSE IF j.k = "null" THEN Nil
    ELSE IF j.k = "bool" THEN Ptr(j.v)
    ELSE old

DecodeScopes(old, j) ==
    IF j.k = "absent" THEN old
    ELSE IF j.k = "null" THEN Nil
    ELSE IF j.k = "obj" THEN Ptr(MergeMap(IF old = Nil THEN {} ELSE Deref(old), j.m))
    ELSE old

DecodeAlgorithm(old, j) ==
    IF j.k = "absent" THEN old
    ELSE IF j.k = "null" THEN Nil
    ELSE IF j.k = "text" THEN Ptr(j.t)
    ELSE old

SiblingsWellFormed(b) ==
    /\ b.secret_encoded.k \in {"absent", "null", "bool"}
    /\ b.scopes.k \in {"absent", "null", "obj"}
    /\ b.alg.k \in {"absent", "null", "text"}

jsonUnmarshal(rec, b) ==
    [jc  |-> ClientJWTConfiguration(rec.LifetimeInSeconds,
                                    DecodeSecretEncoded(rec.SecretEncoded, b.secret_encoded),
                                    DecodeScopes(rec.Scopes, b.scopes),
                                    DecodeAlgorithm(rec.Algorithm, b.alg)),
     RawLifetimeInSeconds |->
         IF b.lifetime_in_seconds.k = "absent" THEN Null ELSE b.lifetime_in_seconds,
     err |-> IF SiblingsWellFormed(b) THEN NoError ELSE UnmarshalTypeError]

Result(rec, e) == [jc |-> rec, err |-> e]

WithLifetime(rec, l) == [rec EXCEPT !.LifetimeInSeconds = l]

(* the type switch on alias.RawLifetimeInSeconds; the outcomes are a set   *)
(* because int(float64) is implementation-dependent out of range           *)
TypeSwitchIgnoringDefault(rec, raw) ==
    IF raw.k = "null" THEN {Result(rec, NoError)}
    ELSE IF raw.k = "num"
        THEN {Result(WithLifetime(rec, Ptr(v)), NoError) : v \in IntOfFloat64(Float64(raw.h))}
    ELSE IF raw.k = "str"
        THEN LET a == Atoi(raw.s)
             IN  IF ~a.ok THEN {Result(rec, unexpectedTypeError)}
                 ELSE {Result(WithLifetime(rec, Ptr(a.value)), NoError)}
    ELSE {Result(rec, NoError)}

TypeSwitchZeroWhenNil(rec, raw) ==
    IF raw.k = "null" THEN {Result(WithLifetime(rec, Ptr(0)), NoError)}
    ELSE IF raw.k = "num"
        THEN {Result(WithLifetime(rec, Ptr(v)), NoError) : v \in IntOfFloat64(Float64(raw.h))}
    ELSE IF raw.k = "str"
        THEN LET a == Atoi(raw.s)
             IN  IF ~a.ok THEN {Result(rec, unexpectedTypeError)}
                 ELSE {Result(WithLifetime(rec, Ptr(a.value)), NoError)}
    ELSE {Result(rec, unexpectedTypeError)}

TypeSwitch(rec, raw) ==
    IF raw.k = "null" THEN {Result(rec, NoError)}
    ELSE IF raw.k = "num"
        THEN {Result(WithLifetime(rec, Ptr(v)), NoError) : v \in IntOfFloat64(Float64(raw.h))}
    ELSE IF raw.k = "str"
        THEN LET a == Atoi(raw.s)
             IN  IF ~a.ok THEN {Result(rec, unexpectedTypeError)}
                 ELSE {Result(WithLifetime(rec, Ptr(a.value)), NoError)}
    ELSE {Result(rec, unexpectedTypeError)}

UnmarshalJSONClearingFirst(rec, b) ==
    LET d == jsonUnmarshal(WithLifetime(rec, Nil), b)
    IN  IF d.err # NoError THEN {Result(d.jc, d.err)}
        ELSE TypeSwitch(d.jc, d.RawLifetimeInSeconds)

UnmarshalJSON(rec, b) ==
    LET d == jsonUnmarshal(rec, b)
    IN  IF d.err # NoError THEN {Result(d.jc, d.err)}
        ELSE TypeSwitch(d.jc, d.RawLifetimeInSeconds)

----------------------------------------------------------------------------
(* MarshalJSON: RawLifetimeInSeconds holds the *int only when it is not    *)
(* nil; json.Marshal omits a nil interface and nil pointers (omitempty),   *)
(* and writes a non-nil pointer as the value it points to.                 *)
EncodeInt(n) == Num(2 * n)

RawLifetimeOmittingZero(l) ==
    IF l # Nil /\ Deref(l) # 0 THEN EncodeInt(Deref(l)) ELSE Absent

RawLifetime(l) ==
    IF l # Nil THEN EncodeInt(Deref(l)) ELSE Absent

MarshalJSON(rec) ==
    [bytes |-> JSONObject(RawLifetime(rec.LifetimeInSeconds),
                          IF rec.SecretEncoded = Nil THEN Absent
                              ELSE Bool(Deref(rec.SecretEncoded)),
                          IF rec.Scopes = Nil THEN Absent ELSE Obj(Deref(rec.Scopes)),
                          IF rec.Algorithm = Nil THEN Absent ELSE Text(Deref(rec.Algorithm))),
     err |-> NoError]

----------------------------------------------------------------------------
(* Credential.  Every field is a pointer.  ExpiresAt is the one pointer    *)
(* that UpdateCredential copies into a second struct, so it is modelled as *)
(* an address into the heap `times`; the other fields are never shared and *)
(* are modelled by the value they point to.                                *)
Addrs      == {"a1", "a2"}
ZeroTime   == "0001-01-01T00:00:00Z"
TimeValues == {"2030-01-01T00:00:00Z", "2031-01-01T00:00:00Z"}

StringFields == {"ID", "Name", "KeyID", "CredentialType", "PEM", "Algorithm"}

Credential(id, name, kid, typ, pem, alg, parse, created, updated, expires) ==
    [ID |-> id, Name |-> name, KeyID |-> kid, CredentialType |-> typ, PEM |-> pem,
     Algorithm |-> alg, ParseExpiryFromCert |-> parse, CreatedAt |-> created,
     UpdatedAt |-> updated, ExpiresAt |-> expires]

ZeroCredential == Credential(Nil, Nil, Nil, Nil, Nil, Nil, Nil, Nil, Nil, Nil)

EmptyHeap == [a \in Addrs |-> ZeroTime]

(* the json tag of each field *)
FieldOfKey(key) ==
    CASE key = "id"                     -> "ID"
      [] key = "name"                   -> "Name"
      [] key = "kid"                    -> "KeyID"
      [] key = "credential_type"        -> "CredentialType"
      [] key = "pem"                    -> "PEM"
      [] key = "alg"                    -> "Algorithm"
      [] key = "parse_expiry_from_cert" -> "ParseExpiryFromCert"
      [] key = "created_at"             -> "CreatedAt"
      [] key = "updated_at"             -> "UpdatedAt"
      [] key = "expires_at"             -> "ExpiresAt"

(* cells no credential points to are reclaimed *)
Collect(heap, c) ==
    [a \in Addrs |-> IF c.ExpiresAt = Ptr(a) THEN heap[a] ELSE ZeroTime]

(* time.Time.UnmarshalJSON: *t, err = parse(data); a string that is not a  *)
(* timestamp leaves the zero time behind                                   *)
ParseTime(j) ==
    IF j.k # "text" THEN [ok |-> FALSE, wrote |-> FALSE, t |-> ZeroTime]
    ELSE IF j.t \in TimeValues THEN [ok |-> TRUE, wrote |-> TRUE, t |-> j.t]
    ELSE [ok |-> FALSE, wrote |-> TRUE, t |-> ZeroTime]

DecodeErr == "failed to unmarshal response payload"
HTTPErr   == "request failed"

(* one member of the response object decoded into the payload struct:      *)
(* a nil pointer is allocated, a non-nil pointer is written through        *)
DecodeMember(st, key, val) ==
    LET f == FieldOfKey(key)
        c == st.payload
    IN  IF st.abort THEN st
        ELSE IF val.k = "null" THEN [st EXCEPT !.payload = [c EXCEPT ![f] = Nil]]
        ELSE IF f \in StringFields
            THEN IF val.k = "text" THEN [st EXCEPT !.payload = [c EXCEPT ![f] = Ptr(val.t)]]
                 ELSE [st EXCEPT !.err = DecodeErr]
        ELSE IF f = "ParseExpiryFromCert"
            THEN IF val.k = "bool" THEN [st EXCEPT !.payload = [c EXCEPT ![f] = Ptr(val.v)]]
                 ELSE [st EXCEPT !.err = DecodeErr]
        ELSE IF f \in {"CreatedAt", "UpdatedAt"}
            THEN LET p == ParseTime(val)
                     old == IF c[f] = Nil THEN ZeroTime ELSE Deref(c[f])
                 IN  [st EXCEPT !.payload = [c EXCEPT ![f] = Ptr(IF p.wrote THEN p.t ELSE old)],
                                !.err = IF p.ok THEN st.err ELSE DecodeErr,
                                !.abort = ~p.ok]
        ELSE LET p == ParseTime(val)
                 a == IF c.ExpiresAt # Nil THEN Deref(c.ExpiresAt)
                      ELSE CHOOSE x \in Addrs : Ptr(x) # st.live
             IN  [st EXCEPT !.payload = [c EXCEPT !.ExpiresAt = Ptr(a)],
                            !.times = [st.times EXCEPT ![a] = IF p.wrote THEN p.t
                                                              ELSE IF c.ExpiresAt # Nil THEN @
                                                              ELSE ZeroTime],
                            !.err = IF p.ok THEN st.err ELSE DecodeErr,
                            !.abort = ~p.ok]

RECURSIVE DecodeMembers(_, _)
DecodeMembers(st, members) ==
    IF members = <<>> THEN st
    ELSE DecodeMembers(DecodeMember(st, Head(members)[1], Head(members)[2]), Tail(members))

URI(segments) == segments

(* Management.Request: sends the payload, and on a response with a body    *)
(* decodes that body into the same payload                                 *)
Request(method, uri, payload, live, heap, resp) ==
    LET request == [method |-> method, uri |-> uri, payload |-> payload]
        start   == [payload |-> payload, times |-> heap, err |-> NoError,
                    abort |-> FALSE, live |-> live]
    IN  IF resp.status = "error"
            THEN [payload |-> payload, times |-> heap, err |-> HTTPErr, sent |-> request]
        ELSE IF resp.status = "nocontent"
            THEN [payload |-> payload, times |-> heap, err |-> NoError, sent |-> request]
        ELSE LET d == DecodeMembers(start, resp.body)
             IN  [payload |-> d.payload, times |-> d.times, err |-> d.err, sent |-> request]

(* the responses the server is taken to give *)
Echo(t) ==
    << <<"id", Text("cred_1")>>, <<"name", Text("key")>>,
       <<"credential_type", Text("public_key")>>, <<"kid", Text("kid_1")>>,
       <<"alg", Text("RS256")>>, <<"created_at", Text(t)>>,
       <<"updated_at", Text(t)>>, <<"expires_at", Text(t)>> >>

Bodies ==
    {Echo(t) : t \in TimeValues}
      \cup { <<>>,
             << <<"id", Text("cred_1")>> >>,
             << <<"id", Text("cred_2")>>, <<"expires_at", Null>> >>,
             << <<"pem", Text("PEM2")>>, <<"parse_expiry_from_cert", Bool(FALSE)>> >>,
             << <<"expires_at", Text("2031-01-01T00:00:00Z")>>, <<"name", Num(10)>> >>,
             << <<"id", Text("cred_1")>>, <<"expires_at", Text("soon")>>,
                <<"name", Text("key")>> >> }

Responses ==
    {[status |-> "error", body |-> <<>>], [status |-> "nocontent", body |-> <<>>]}
      \cup {[status |-> "ok", body |-> b] : b \in Bodies}

ClientIDs     == {"client_1"}
CredentialIDs == {"cred_1", "cred_2"}

(* credentials a caller builds in memory *)
CallerCredentials ==
    { [c |-> Credential(id, Nil, Nil, Nil, pem, Nil, parse, Nil, Nil,
                        IF t = ZeroTime THEN Nil ELSE Ptr("a1")),
       times |-> [EmptyHeap EXCEPT !["a1"] = t]] :
        id \in {Nil, Ptr("cred_0")}, pem \in {Nil, Ptr("PEM1")},
        parse \in {Nil, Ptr(TRUE)}, t \in {ZeroTime} \cup TimeValues }

----------------------------------------------------------------------------
(* UpdateCredential, line by line *)
CloneWhole(c) == c

CloneExpiry(c) == [ZeroCredential EXCEPT !.ExpiresAt = c.ExpiresAt]

CopyBackWithPEM(c, cl) ==
    [c EXCEPT !.ID = cl.ID, !.Name = cl.Name, !.CredentialType = cl.CredentialType,
              !.KeyID = cl.KeyID, !.Algorithm = cl.Algorithm, !.CreatedAt = cl.CreatedAt,
              !.UpdatedAt = cl.UpdatedAt, !.ExpiresAt = cl.ExpiresAt,
              !.PEM = cl.PEM, !.ParseExpiryFromCert = cl.ParseExpiryFromCert]

CopyBack(c, cl) ==
    [c EXCEPT !.ID = cl.ID, !.Name = cl.Name, !.CredentialType = cl.CredentialType,
              !.KeyID = cl.KeyID, !.Algorithm = cl.Algorithm, !.CreatedAt = cl.CreatedAt,
              !.UpdatedAt = cl.UpdatedAt, !.ExpiresAt = cl.ExpiresAt]

NoRequest == [method |-> "", uri |-> <<>>, payload |-> ZeroCredential]
NoCall    == [name |-> "", clientID |-> "", credentialID |-> ""]

----------------------------------------------------------------------------
InitCodec ==
    /\ jc = ZeroJWTConfiguration
    /\ pre = ZeroJWTConfiguration
    /\ in = NoInput
    /\ out = NoInput
    /\ err = NoError
    /\ op = "init"
    /\ src = Nil

InitCall ==
    /\ clone = ZeroCredential
    /\ sent = NoRequest
    /\ cerr = NoError
    /\ cop = NoCall

(* the codec on its own: no credential exists *)
Init ==
    /\ InitCodec
    /\ credential = ZeroCredential
    /\ times = EmptyHeap
    /\ before = ZeroCredential
    /\ beforeTimes = EmptyHeap
    /\ InitCall

(* the credential calls on their own: the caller holds some credential *)
InitCred ==
    /\ InitCodec
    /\ \E cc \in CallerCredentials :
          /\ credential = cc.c
          /\ times = cc.times
          /\ before = cc.c
          /\ beforeTimes = cc.times
    /\ InitCall

(* the caller builds a configuration in memory *)
NewJWTConfiguration ==
    /\ \E l \in {Nil} \cup {Ptr(n) : n \in IntRange} :
          jc' = ClientJWTConfiguration(l, Nil, Nil, Nil)
    /\ pre' = ZeroJWTConfiguration
    /\ in' = NoInput
    /\ out' = NoInput
    /\ err' = NoError
    /\ op' = "new"
    /\ src' = Nil
    /\ UNCHANGED credVars

(* jc.UnmarshalJSON(b) on the current configuration *)
DoUnmarshalJSON ==
    /\ \E b \in Inputs : \E r \in UnmarshalJSON(jc, b) :
          /\ jc' = r.jc
          /\ err' = r.err
          /\ in' = b
    /\ pre' = jc
    /\ out' = NoInput
    /\ op' = "unmarshal"
    /\ src' = Nil
    /\ UNCHANGED credVars

(* jc.MarshalJSON() *)
DoMarshalJSON ==
    /\ LET r == MarshalJSON(jc)
       IN  /\ out' = r.bytes
           /\ err' = r.err
    /\ pre' = jc
    /\ op' = "marshal"
    /\ UNCHANGED <<jc, in, src>>
    /\ UNCHANGED credVars

(* the bytes MarshalJSON returned are decoded into a zero-valued record *)
DoUnmarshalEncoded ==
    /\ op = "marshal"
    /\ \E r \in UnmarshalJSON(ZeroJWTConfiguration, out) :
          /\ jc' = r.jc
          /\ err' = r.err
    /\ in' = out
    /\ pre' = ZeroJWTConfiguration
    /\ out' = NoInput
    /\ op' = "unmarshal"
    /\ src' = Ptr(jc)
    /\ UNCHANGED credVars

NewCredential ==
    /\ \E cc \in CallerCredentials :
          /\ credential' = cc.c
          /\ times' = cc.times
          /\ before' = cc.c
          /\ beforeTimes' = cc.times
    /\ clone' = ZeroCredential
    /\ sent' = NoRequest
    /\ cerr' = NoError
    /\ cop' = NoCall
    /\ UNCHANGED codecVars

UpdateCredential ==
    /\ \E clientID \in ClientIDs, credentialID \in CredentialIDs, resp \in Responses :
          LET credentialClone == CloneExpiry(credential)
              r == Request("PATCH", URI(<<"clients", clientID, "credentials", credentialID>>),
                           credentialClone, credential.ExpiresAt, times, resp)
              c == IF r.err # NoError THEN credential ELSE CopyBack(credential, r.payload)
          IN  /\ credential' = c
              /\ times' = Collect(r.times, c)
              /\ clone' = r.payload
              /\ sent' = r.sent
              /\ cerr' = r.err
              /\ cop' = [name |-> "UpdateCredential", clientID |-> clientID,
                         credentialID |-> credentialID]
    /\ before' = credential
    /\ beforeTimes' = times
    /\ UNCHANGED codecVars

Next == NewJWTConfiguration \/ DoUnmarshalJSON \/ DoMarshalJSON \/ DoUnmarshalEncoded

Spec == Init /\ [][Next]_vars

NextCred == NewCredential \/ UpdateCredential

SpecCred == InitCred /\ [][NextCred]_vars

----------------------------------------------------------------------------
(* Properties of the codec, checked under Spec *)

Decoded   == op = "unmarshal"
RawIn     == in.lifetime_in_seconds
Lifetime  == jc.LifetimeInSeconds
Unchanged == jc.LifetimeInSeconds = pre.LifetimeInSeconds

(* the decimal digits of an integer of at most two digits *)
Decimal(n) ==
    LET m  == Abs(n)
        ds == IF m < 10 THEN <<Digits[m + 1]>>
              ELSE <<Digits[(m \div 10) + 1], Digits[(m % 10) + 1]>>
    IN  IF n < 0 THEN <<"-">> \o ds ELSE ds

(* C1: encoding a record whose lifetime is n >= 0 with MarshalJSON and      *)
(* decoding the bytes with UnmarshalJSON into a zero-valued record succeeds *)
(* and yields the lifetime n exactly.                                       *)
C1_RoundTrip ==
    (/\ Decoded
     /\ src # Nil
     /\ Deref(src).LifetimeInSeconds # Nil
     /\ Deref(Deref(src).LifetimeInSeconds) >= 0)
        => (err = NoError /\ Lifetime = Deref(src).LifetimeInSeconds)

(* C2: decoding the JSON string that holds the decimal digits of n succeeds *)
(* and yields the same lifetime as decoding the JSON number n into the same *)
(* record, which succeeds too.                                              *)
C2_WireFormIndependence ==
    \A n \in IntRange :
        (Decoded /\ SiblingsWellFormed(in) /\ RawIn = Str(Decimal(n)))
            => /\ err = NoError
               /\ \A r \in UnmarshalJSON(pre, [in EXCEPT !.lifetime_in_seconds = EncodeInt(n)]) :
                      r.err = NoError /\ r.jc.LifetimeInSeconds = Lifetime

C5_AbsentLeavesUnset ==
    (/\ Decoded
     /\ pre = ZeroJWTConfiguration
     /\ RawIn = Absent
     /\ SiblingsWellFormed(in))
        => (err = NoError /\ Lifetime = Nil)

C5_Witness ==
    /\ Decoded
    /\ pre = ZeroJWTConfiguration
    /\ RawIn = Absent
    /\ in.alg.k = "text"
    /\ err = NoError
    /\ jc.Algorithm = Ptr(in.alg.t)
    /\ Lifetime = Nil

(* C6: MarshalJSON returns no error and writes the lifetime_in_seconds key  *)
(* exactly when LifetimeInSeconds is set, as the JSON number n (0 too),     *)
(* whatever form the record was decoded from.                               *)
C6_MarshalCanonical ==
    op = "marshal" =>
        /\ err = NoError
        /\ Lifetime = Nil => out.lifetime_in_seconds = Absent
        /\ Lifetime # Nil =>
              /\ out.lifetime_in_seconds.k = "num"
              /\ out.lifetime_in_seconds.h = 2 * Deref(Lifetime)

C6_Witness ==
    /\ op = "marshal"
    /\ RawIn = Str(<<"0">>)
    /\ Lifetime = Ptr(0)
    /\ out.lifetime_in_seconds = Num(0)

(* C10: UnmarshalJSON never clears a lifetime that is set: an absent or     *)
(* null key leaves it, and so does an input rejected with the malformed-    *)
(* field error, whose sibling keys have been stored all the same.           *)
C10_LifetimeNeverCleared ==
    (Decoded /\ pre.LifetimeInSeconds # Nil) =>
        /\ RawIn.k \in {"absent", "null"} => Unchanged
        /\ err = unexpectedTypeError =>
              /\ Unchanged
              /\ in.secret_encoded.k = "bool" => jc.SecretEncoded = Ptr(in.secret_encoded.v)
              /\ in.alg.k = "text" => jc.Algorithm = Ptr(in.alg.t)
              /\ in.scopes.k = "obj" =>
                    (jc.Scopes # Nil /\ in.scopes.m \subseteq Deref(jc.Scopes))

C10_Witness ==
    /\ Decoded
    /\ pre.LifetimeInSeconds # Nil
    /\ pre.Algorithm = Nil
    /\ RawIn = Str(<<"a">>)
    /\ err = unexpectedTypeError
    /\ jc.Algorithm = Ptr("HS256")
    /\ jc.Scopes = Ptr(ScopeMap)
    /\ Unchanged

----------------------------------------------------------------------------
(* Properties of UpdateCredential, checked under SpecCred *)

Updated == cop.name = "UpdateCredential"

(* the time a credential's ExpiresAt points to *)
ExpiryOf(c, heap) == IF c.ExpiresAt = Nil THEN Nil ELSE Ptr(heap[Deref(c.ExpiresAt)])

(* C7: after a successful UpdateCredential the caller's ID, Name,           *)
(* CredentialType, KeyID, Algorithm, CreatedAt, UpdatedAt and ExpiresAt are *)
(* the ones decoded from the response, and PEM and ParseExpiryFromCert are  *)
(* what they were before the call.                                          *)
C7_UpdateRefreshesInPlace ==
    (Updated /\ cerr = NoError) =>
        /\ \A f \in {"ID", "Name", "CredentialType", "KeyID", "Algorithm",
                     "CreatedAt", "UpdatedAt", "ExpiresAt"} : credential[f] = clone[f]
        /\ credential.PEM = before.PEM
        /\ credential.ParseExpiryFromCert = before.ParseExpiryFromCert

C7_Witness ==
    /\ Updated
    /\ cerr = NoError
    /\ before.ID = Ptr("cred_0")
    /\ credential.ID = Ptr("cred_1")
    /\ credential.CreatedAt # Nil
    /\ before.PEM = Ptr("PEM1")
    /\ credential.PEM = Ptr("PEM1")
    /\ ExpiryOf(before, beforeTimes) = Ptr("2030-01-01T00:00:00Z")
    /\ ExpiryOf(credential, times) = Ptr("2031-01-01T00:00:00Z")

(* C8: the request UpdateCredential hands to Request is a PATCH to          *)
(* clients/{clientID}/credentials/{credentialID} whose payload has the      *)
(* caller's ExpiresAt and every other field unset.                          *)
C8_PayloadOnlyExpiry ==
    Updated =>
        /\ sent.method = "PATCH"
        /\ sent.uri = <<"clients", cop.clientID, "credentials", cop.credentialID>>
        /\ sent.payload.ExpiresAt = before.ExpiresAt
        /\ \A f \in {"ID", "Name", "KeyID", "CredentialType", "PEM", "Algorithm",
                     "ParseExpiryFromCert", "CreatedAt", "UpdatedAt"} : sent.payload[f] = Nil

C8_Witness ==
    /\ Updated
    /\ before.ID # Nil
    /\ before.PEM # Nil
    /\ before.ParseExpiryFromCert # Nil
    /\ before.ExpiresAt # Nil
    /\ sent.payload.PEM = Nil
    /\ sent.payload.ExpiresAt = before.ExpiresAt

(* C9: when UpdateCredential returns an error, every field of the caller's  *)
(* credential, the expiry time included, has the value it had before the    *)
(* call.                                                                    *)
C9_FailedUpdateChangesNothing ==
    (Updated /\ cerr # NoError) =>
        /\ credential = before
        /\ ExpiryOf(credential, times) = ExpiryOf(before, beforeTimes)

====
